---- MODULE Spec2Model ----
(***************************************************************************)
(* A model of src/src/probles.ts: the practice functions filterByRating,   *)
(* concatenateArrays, Vehicle/Car, processValue, getMostExpensiveProduct   *)
(* and squareAsync.  squareAsync runs on the JavaScript event loop (a      *)
(* clock, timers, promises); the other functions are pure and are applied  *)
(* by a caller to inputs drawn from bounded sets.                          *)
(***************************************************************************)
EXTENDS Integers, Sequences, FiniteSets, TLC

VARIABLES
    clock,      \* event loop: the current time, in ms
    arg,        \* squareAsync: invocation -> the n it was called with
    promise,    \* squareAsync: invocation -> the promise the call returned
    timer,      \* event loop: invocation -> deadline of its pending setTimeout
    threw,      \* squareAsync: invocation -> an exception left the call synchronously
    calledAt,   \* caller: invocation -> time of the call
    settledAt,  \* caller: invocation -> time its promise settled
    pc,         \* caller of a pure function: "start" before the call, "done" after
    args,       \* caller of a pure function: the argument (the caller's array)
    ret,        \* caller of a pure function: what the call returned
    heap,       \* Vehicle/Car: object id -> the instance's private fields
    made        \* caller: object id -> the arguments given to its constructor

asyncVars == <<clock, arg, promise, timer, threw, calledAt, settledAt>>
pureVars == <<pc, args, ret>>
objVars == <<heap, made>>
vars == <<clock, arg, promise, timer, threw, calledAt, settledAt,
          pc, args, ret, heap, made>>

(***************************************************************************)
(* Bounds of the model.                                                    *)
(***************************************************************************)
MaxCalls == 3
MaxN == 2
MaxCallTime == 1000
TickStep == 500

\* "no time": the value of a time that is not set (times are >= 0)
NoTime == 0 - 1
Max(S) == CHOOSE x \in S : \A y \in S : y <= x

(***************************************************************************)
(* Problem 8: squareAsync.                                                 *)
(***************************************************************************)
Calls == 1..MaxCalls
Numbers == (0 - MaxN)..MaxN

\* setTimeout(..., 1000)
Delay == 1000

NoPromise == [state |-> "none"]
Pending == [state |-> "pending"]
Fulfilled(v) == [state |-> "fulfilled", value |-> v]
Rejected(e) == [state |-> "rejected", reason |-> e]

NegativeError == "Negative number not allowed"

\* if (n < 0)
IsNegative(n) == n < 0

\* resolve(n * n)
SquareSum(n) == n + n
Square(n) == n * n

\* A throw in the body of a function that is not async leaves the call.
SyncThrow(e) == [threw |-> TRUE, promise |-> NoPromise, timer |-> NoTime]
\* A throw in the body of an async function rejects the promise it returns.
AsyncThrow(e) == [threw |-> FALSE, promise |-> Rejected(e), timer |-> NoTime]

\* new Promise((resolve) => { setTimeout(..., 1000) }): the executor runs
\* during the call and registers the timer; the promise stays pending.
Schedule(now) == [threw |-> FALSE, promise |-> Pending, timer |-> now + Delay]

\* The body of squareAsync up to its return, called with n at time now.
squareAsyncUnchecked(n, now) == Schedule(now)
squareAsync(n, now) ==
    IF IsNegative(n) THEN AsyncThrow(NegativeError) ELSE Schedule(now)

\* The n the timer callback of invocation i closes over: its own parameter.
LastN(i) == arg[Max({j \in Calls : calledAt[j] # NoTime})]
CapturedN(i) == arg[i]

\* The event loop runs a timer's callback no earlier than its deadline.
TimerDue(i) == timer[i] # NoTime /\ clock >= timer[i]

AsyncInit ==
    /\ clock = 0
    /\ arg = [i \in Calls |-> 0]
    /\ promise = [i \in Calls |-> NoPromise]
    /\ timer = [i \in Calls |-> NoTime]
    /\ threw = [i \in Calls |-> FALSE]
    /\ calledAt = [i \in Calls |-> NoTime]
    /\ settledAt = [i \in Calls |-> NoTime]

PureIdle == pc = "idle" /\ args = <<>> /\ ret = [kind |-> "none"]
ObjIdle == heap = <<>> /\ made = <<>>

\* The i-th invocation, squareAsync(n), made at the current time.
Call(i, n) ==
    /\ calledAt[i] = NoTime
    /\ \A j \in Calls : j < i => calledAt[j] # NoTime
    /\ clock <= MaxCallTime
    /\ LET r == squareAsync(n, clock) IN
        /\ arg' = [arg EXCEPT ![i] = n]
        /\ threw' = [threw EXCEPT ![i] = r.threw]
        /\ promise' = [promise EXCEPT ![i] = r.promise]
        /\ timer' = [timer EXCEPT ![i] = r.timer]
        /\ calledAt' = [calledAt EXCEPT ![i] = clock]
        /\ settledAt' = [settledAt EXCEPT ![i] =
                            IF r.promise.state = "rejected" THEN clock ELSE NoTime]
    /\ UNCHANGED <<clock, pureVars, objVars>>

\* The timer of invocation i fires: () => { resolve(n * n) }.
Fire(i) ==
    /\ TimerDue(i)
    /\ timer' = [timer EXCEPT ![i] = NoTime]
    /\ promise' = [promise EXCEPT ![i] =
                      IF promise[i].state = "pending"
                      THEN Fulfilled(Square(CapturedN(i))) ELSE promise[i]]
    /\ settledAt' = [settledAt EXCEPT ![i] =
                      IF promise[i].state = "pending" THEN clock ELSE settledAt[i]]
    /\ UNCHANGED <<clock, arg, threw, calledAt, pureVars, objVars>>

\* Time passes; the clock stops once no call can be made and no timer is left.
Tick ==
    /\ \/ clock <= MaxCallTime
       \/ \E i \in Calls : timer[i] # NoTime /\ clock < timer[i]
    /\ clock' = clock + TickStep
    /\ UNCHANGED <<arg, promise, timer, threw, calledAt, settledAt, pureVars, objVars>>

Init == AsyncInit /\ PureIdle /\ ObjIdle

Next ==
    \/ \E i \in Calls, n \in Numbers : Call(i, n)
    \/ \E i \in Calls : Fire(i)
    \/ Tick

Spec == Init /\ [][Next]_vars

\* The event loop keeps running: time passes and a due timer's callback runs.
FairSpec ==
    /\ Init
    /\ [][Next]_vars
    /\ WF_vars(Tick)
    /\ \A i \in Calls : WF_vars(Fire(i))

(***************************************************************************)
(* The pure functions.  A caller holds an argument (args), calls the       *)
(* function once and keeps what it returned (ret).                         *)
(***************************************************************************)
MaxItems == 3
MaxProducts == 3
MaxArgs == 2
MaxInner == 2
MaxText == 3
MaxNum == 10

BoundedSeq(S, n) == UNION {[1..k -> S] : k \in 0..n}

NotReturned == [kind |-> "none"]
Return(v) == [kind |-> "return", value |-> v]
ReturnNaN == [kind |-> "returnNaN"]
Throw(e) == [kind |-> "throw", error |-> e]

AsyncIdle == AsyncInit
CallerStart == pc = "start" /\ ret = NotReturned

(***************************************************************************)
(* Problem 2: filterByRating.                                              *)
(***************************************************************************)
Titles == {"a", "b"}
Ratings == {3, 4, 5}
RatedItems == [title : Titles, rating : Ratings]

\* (item) => item.rating >= 4
KeepAbove(item) == item.rating > 4
Keep(item) == item.rating >= 4

\* Array.prototype.filter: a new array of the elements the callback keeps,
\* visited in index order.
RECURSIVE ArrayFilter(_, _, _)
ArrayFilter(a, k, out) ==
    IF k > Len(a) THEN out
    ELSE ArrayFilter(a, k + 1, IF Keep(a[k]) THEN Append(out, a[k]) ELSE out)

filterByRating(items) == ArrayFilter(items, 1, <<>>)

InitFilter ==
    /\ AsyncIdle /\ ObjIdle /\ CallerStart
    /\ args \in BoundedSeq(RatedItems, MaxItems)

CallFilterByRating ==
    /\ pc = "start"
    /\ ret' = Return(filterByRating(args))
    /\ pc' = "done"
    /\ UNCHANGED <<args, asyncVars, objVars>>

SpecFilter == InitFilter /\ [][CallFilterByRating]_vars

(***************************************************************************)
(* Problem 3: concatenateArrays.  An element is a number or an array.      *)
(***************************************************************************)
Num(x) == [num |-> x]
Arr(a) == [arr |-> a]
IsArray(e) == DOMAIN e = {"arr"}

Elements == {Num(1), Num(2), Arr(<<Num(1)>>)}
Arrays == {Arr(a) : a \in BoundedSeq(Elements, MaxInner)}

\* Array.prototype.flat(depth): an element that is an array is replaced by
\* its elements, flattened depth - 1 further levels, while depth > 0.
RECURSIVE Flat(_, _)
Flat(a, depth) ==
    IF a = <<>> THEN <<>>
    ELSE LET e == Head(a) IN
         (IF IsArray(e) /\ depth > 0 THEN Flat(e.arr, depth - 1) ELSE <<e>>)
             \o Flat(Tail(a), depth)

\* arrays.flat(): the depth defaults to 1
concatenateArraysDeep(arrays) == Flat(arrays, 1 + 1)
concatenateArrays(arrays) == Flat(arrays, 1)

InitConcat ==
    /\ AsyncIdle /\ ObjIdle /\ CallerStart
    /\ args \in BoundedSeq(Arrays, MaxArgs)

CallConcatenateArrays ==
    /\ pc = "start"
    /\ ret' = Return(concatenateArrays(args))
    /\ pc' = "done"
    /\ UNCHANGED <<args, asyncVars, objVars>>

SpecConcat == InitConcat /\ [][CallConcatenateArrays]_vars

(***************************************************************************)
(* Problem 5: processValue.  A value at run time is a string (a sequence   *)
(* of UTF-16 code units), a number, or, from a caller that is not type     *)
(* checked, a boolean, null, undefined or a bigint.                        *)
(***************************************************************************)
CodeUnits == {"1", "0", "h"}
StringValue(u) == [kind |-> "string", units |-> u]
NumberValue(x) == [kind |-> "number", num |-> x]
BooleanValue(b) == [kind |-> "boolean", bool |-> b]
NullValue == [kind |-> "null"]
UndefinedValue == [kind |-> "undefined"]
BigIntValue(x) == [kind |-> "bigint", big |-> x]

Texts == {StringValue(u) : u \in BoundedSeq(CodeUnits, MaxText)}
Numerics == {NumberValue(x) : x \in (0 - MaxNum)..MaxNum}
Others ==
    {BooleanValue(b) : b \in BOOLEAN} \cup {NullValue, UndefinedValue}
        \cup {BigIntValue(x) : x \in 0..1}
Values == Texts \cup Numerics \cup Others

\* typeof value
TypeOf(value) == IF value.kind = "null" THEN "object" ELSE value.kind

\* value * 2: both operands are converted to numbers; a bigint operand
\* mixed with a number is a TypeError, and undefined converts to NaN.
Times2(value) ==
    CASE value.kind = "number" -> Return(value.num * 2)
      [] value.kind = "boolean" -> Return((IF value.bool THEN 1 ELSE 0) * 2)
      [] value.kind = "null" -> Return(0 * 2)
      [] value.kind = "undefined" -> ReturnNaN
      [] value.kind = "bigint" -> Throw("TypeError")

\* typeof value === "string" ? value.length : value * 2
processValueDoubled(value) ==
    IF TypeOf(value) = "string" THEN Return(Len(value.units) * 2) ELSE Times2(value)
processValueChecked(value) ==
    IF TypeOf(value) = "string" THEN Return(Len(value.units))
    ELSE IF TypeOf(value) = "number" THEN Times2(value)
    ELSE Throw("TypeMismatch")
processValue(value) ==
    IF TypeOf(value) = "string" THEN Return(Len(value.units)) ELSE Times2(value)

InitProcess ==
    /\ AsyncIdle /\ ObjIdle /\ CallerStart
    /\ args \in Values

CallProcessValue ==
    /\ pc = "start"
    /\ ret' = processValue(args)
    /\ pc' = "done"
    /\ UNCHANGED <<args, asyncVars, objVars>>

SpecProcess == InitProcess /\ [][CallProcessValue]_vars

(***************************************************************************)
(* Problem 6: getMostExpensiveProduct.                                     *)
(***************************************************************************)
Names == {"A", "B"}
Prices == {0, 10, 20}
Products == [name : Names, price : Prices]
Null == [kind |-> "null"]

\* (max, item) => (item.price > max.price ? item : max)
MoreExpensiveOrEqual(max, item) == IF item.price >= max.price THEN item ELSE max
MoreExpensive(max, item) == IF item.price > max.price THEN item ELSE max

\* Array.prototype.reduce without an initial value: the accumulator starts
\* as the first element and the callback is applied from the second on.
RECURSIVE ArrayReduce(_, _, _)
ArrayReduce(a, k, acc) ==
    IF k > Len(a) THEN acc ELSE ArrayReduce(a, k + 1, MoreExpensive(acc, a[k]))

getMostExpensiveProduct(products) ==
    IF Len(products) = 0 THEN Null ELSE ArrayReduce(products, 2, products[1])

InitMax ==
    /\ AsyncIdle /\ ObjIdle /\ CallerStart
    /\ args \in BoundedSeq(Products, MaxProducts)

CallGetMostExpensiveProduct ==
    /\ pc = "start"
    /\ ret' = Return(getMostExpensiveProduct(args))
    /\ pc' = "done"
    /\ UNCHANGED <<args, asyncVars, objVars>>

SpecMax == InitMax /\ [][CallGetMostExpensiveProduct]_vars

(***************************************************************************)
(* Problem 4: Vehicle and Car.                                             *)
(***************************************************************************)
MaxObjects == 2

Makes == {"Toyota", ""}
Years == {2020, 0 - 1}
Models == {"Corolla", "Toyota"}

\* Vehicle's constructor: this.make = make; this.year = year
Vehicle(make, year) == [class |-> "Vehicle", make |-> make, year |-> year]

\* Car's constructor: super(make, year); this.model = model
CarSwapped(make, year, model) ==
    [class |-> "Car", make |-> model, year |-> year, model |-> make]
Car(make, year, model) ==
    [class |-> "Car", make |-> make, year |-> year, model |-> model]

\* `Make: ${this.make}, Year: ${this.year}`; Car does not override it
getInfo(this) == "Make: " \o this.make \o ", Year: " \o ToString(this.year)

\* `Model: ${this.model}`
getModel(this) == "Model: " \o this.model

InitVehicle ==
    /\ AsyncIdle
    /\ heap = <<>> /\ made = <<>>
    /\ pc = "idle" /\ args = <<>> /\ ret = NotReturned

\* new Vehicle(make, year)
NewVehicle(make, year) ==
    /\ Len(heap) < MaxObjects
    /\ heap' = Append(heap, Vehicle(make, year))
    /\ made' = Append(made, [make |-> make, year |-> year])
    /\ UNCHANGED <<pureVars, asyncVars>>

\* new Car(make, year, model)
NewCar(make, year, model) ==
    /\ Len(heap) < MaxObjects
    /\ heap' = Append(heap, Car(make, year, model))
    /\ made' = Append(made, [make |-> make, year |-> year, model |-> model])
    /\ UNCHANGED <<pureVars, asyncVars>>

\* o.getInfo(), on a Vehicle or a Car
GetInfo(o) ==
    /\ pc' = "getInfo"
    /\ args' = <<o>>
    /\ ret' = Return(getInfo(heap[o]))
    /\ UNCHANGED <<heap, made, asyncVars>>

\* o.getModel(), which only a Car has
GetModel(o) ==
    /\ heap[o].class = "Car"
    /\ pc' = "getModel"
    /\ args' = <<o>>
    /\ ret' = Return(getModel(heap[o]))
    /\ UNCHANGED <<heap, made, asyncVars>>

NextVehicle ==
    \/ \E make \in Makes, year \in Years : NewVehicle(make, year)
    \/ \E make \in Makes, year \in Years, model \in Models : NewCar(make, year, model)
    \/ \E o \in DOMAIN heap : GetInfo(o)
    \/ \E o \in DOMAIN heap : GetModel(o)

SpecVehicle == InitVehicle /\ [][NextVehicle]_vars

(***************************************************************************)
(* Properties of squareAsync.                                              *)
(***************************************************************************)
Called(i) == calledAt[i] # NoTime

\* C1: for every n < 0, squareAsync(n) fails at once with the negative-input
\* error: its promise is rejected at the time of the call, and no timer is
\* ever pending for that invocation.
C1_NegativeFailsImmediately ==
    \A i \in Calls :
        (Called(i) /\ arg[i] < 0) =>
            /\ promise[i] = Rejected(NegativeError)
            /\ timer[i] = NoTime
            /\ settledAt[i] = calledAt[i]

C1_Witness ==
    \E i \in Calls :
        /\ Called(i) /\ arg[i] < 0
        /\ promise[i].state = "rejected"
        /\ settledAt[i] = calledAt[i]
        /\ clock >= calledAt[i] + Delay
        /\ \E j \in Calls : timer[j] # NoTime

\* C2: for every n >= 0 (0 included), squareAsync(n) eventually resolves
\* with exactly n * n, not before the 1000 ms delay has elapsed; until then
\* its timer stays scheduled (it cannot be cancelled), it never rejects, and
\* once resolved it stays resolved.
C2_Safety ==
    \A i \in Calls :
        (Called(i) /\ arg[i] >= 0) =>
            /\ ~threw[i]
            /\ promise[i].state \in {"pending", "fulfilled"}
            /\ promise[i].state = "pending" =>
                   /\ timer[i] = calledAt[i] + Delay
                   /\ settledAt[i] = NoTime
            /\ promise[i].state = "fulfilled" =>
                   /\ promise[i].value = arg[i] * arg[i]
                   /\ settledAt[i] >= calledAt[i] + Delay

C2_Stable ==
    \A i \in Calls :
        promise[i].state = "fulfilled" => promise'[i] = promise[i]

C2_ResolvesAfterDelay ==
    /\ []C2_Safety
    /\ [][C2_Stable]_vars
    /\ \A i \in Calls :
           [](Called(i) /\ arg[i] >= 0 => <>(promise[i] = Fulfilled(arg[i] * arg[i])))

C2_Witness ==
    \E i \in Calls :
        /\ Called(i) /\ arg[i] = 0 /\ promise[i] = Fulfilled(0)
        /\ \E j \in Calls : Called(j) /\ arg[j] > 1 /\ promise[j].state = "fulfilled"

\* C3: the negative-input failure reaches the caller as a rejected promise
\* returned by the call, never as an exception thrown out of the call.
C3_RejectedNotThrown ==
    \A i \in Calls :
        (Called(i) /\ arg[i] < 0) =>
            /\ ~threw[i]
            /\ promise[i].state = "rejected"
            /\ promise[i].reason = NegativeError

C3_Witness ==
    \E i \in Calls : Called(i) /\ arg[i] < 0 /\ ~threw[i] /\ promise[i].state = "rejected"

\* C4: concurrent invocations are independent: in every interleaving each
\* invocation with n >= 0 is pending or resolved with its own n * n and each
\* with n < 0 is rejected; a due timer can fire whatever the state of the
\* other invocations; and a step of one invocation changes nothing of another.
C4_OwnOutcome ==
    \A i \in Calls :
        Called(i) =>
            IF arg[i] < 0
            THEN promise[i] = Rejected(NegativeError)
            ELSE promise[i] \in {Pending, Fulfilled(arg[i] * arg[i])}

C4_NotBlocked ==
    \A i \in Calls :
        (Called(i) /\ promise[i].state = "pending" /\ clock >= calledAt[i] + Delay)
            => ENABLED Fire(i)

C4_OneAtATime ==
    \A i, j \in Calls :
        (i # j /\ promise'[i] # promise[i]) =>
            /\ promise'[j] = promise[j]
            /\ timer'[j] = timer[j]
            /\ arg'[j] = arg[j]

C4_Independent ==
    /\ [](C4_OwnOutcome /\ C4_NotBlocked)
    /\ [][C4_OneAtATime]_vars

C4_Witness ==
    \E i, j \in Calls :
        /\ i < j /\ Called(i) /\ Called(j)
        /\ arg[i] > 0 /\ arg[j] > arg[i]
        /\ calledAt[i] < calledAt[j]
        /\ promise[i].state = "fulfilled"
        /\ promise[j].state = "pending"

(***************************************************************************)
(* Properties of the pure functions and of Vehicle/Car.                    *)
(***************************************************************************)
Returned == pc = "done" /\ ret.kind = "return"

\* C5: getMostExpensiveProduct returns null for an empty array; otherwise
\* it returns the element whose price is greatest, the first of them from
\* the left when several tie; and the array given is not changed.
C5_FirstMax ==
    pc = "done" =>
        /\ ret.kind = "return"
        /\ IF args = <<>>
           THEN ret.value = Null
           ELSE \E i \in DOMAIN args :
                   /\ ret.value = args[i]
                   /\ \A j \in DOMAIN args : args[j].price <= args[i].price
                   /\ \A j \in DOMAIN args : j < i => args[j].price < args[i].price

C5_MostExpensive == []C5_FirstMax /\ [][args' = args]_vars

C5_Witness ==
    /\ Returned
    /\ Len(args) = 3
    /\ args[1].price < args[2].price
    /\ args[2].price = args[3].price
    /\ args[2].name # args[3].name
    /\ ret.value = args[2]

\* C6: filterByRating(S) holds exactly the elements of S whose rating is at
\* least 4 (4 is kept, less is dropped), as many times as in S and in their
\* order in S; for the empty array it is the empty array.
KeptIndices == {i \in DOMAIN args : args[i].rating >= 4}
NthKept(k) == CHOOSE i \in KeptIndices : Cardinality({j \in KeptIndices : j <= i}) = k

C6_FilterExact ==
    pc = "done" =>
        /\ ret.kind = "return"
        /\ Len(ret.value) = Cardinality(KeptIndices)
        /\ \A k \in 1..Len(ret.value) : ret.value[k] = args[NthKept(k)]
        /\ args = <<>> => ret.value = <<>>

C6_Witness ==
    /\ Returned
    /\ Len(args) = 3
    /\ args[1].rating = 4 /\ args[2].rating = 3 /\ args[3].rating = 5
    /\ ret.value = <<args[1], args[3]>>

\* C7: concatenateArrays(a1, ..., ak) is all elements of a1, then of a2, ...,
\* then of ak, each array's elements in their order; its length is the sum
\* of the lengths; an element that is itself an array stays an element; and
\* with no argument the result is the empty array.
RECURSIVE LengthBefore(_)
LengthBefore(i) == IF i <= 1 THEN 0 ELSE LengthBefore(i - 1) + Len(args[i - 1].arr)

C7_ConcatInOrder ==
    pc = "done" =>
        /\ ret.kind = "return"
        /\ Len(ret.value) = LengthBefore(Len(args) + 1)
        /\ \A i \in DOMAIN args : \A j \in DOMAIN args[i].arr :
               ret.value[LengthBefore(i) + j] = args[i].arr[j]
        /\ args = <<>> => ret.value = <<>>

C7_Witness ==
    /\ Returned
    /\ args = <<Arr(<<Num(1), Num(2)>>), Arr(<<Arr(<<Num(1)>>), Num(1)>>)>>
    /\ ret.value = <<Num(1), Num(2), Arr(<<Num(1)>>), Num(1)>>

\* C8: processValue returns the number of code units of a text and twice
\* the value of a number; the variant at run time alone decides ("10" gives
\* 2, 10 gives 20).
C8_LengthOrDouble ==
    pc = "done" =>
        /\ args.kind = "string" => ret = Return(Cardinality(DOMAIN args.units))
        /\ args.kind = "number" => ret = Return(args.num + args.num)
        /\ args = StringValue(<<"1", "0">>) => ret = Return(2)
        /\ args = NumberValue(10) => ret = Return(20)

C8_Witness == pc = "done" /\ args = StringValue(<<"1", "0">>) /\ ret = Return(2)

\* C9, as claimed: given a value that is neither text nor numeric,
\* processValue fails with a TypeMismatch error.
C9_TypeMismatch ==
    (pc = "done" /\ args.kind \notin {"string", "number"}) =>
        ret = Throw("TypeMismatch")

\* C9: given a boolean, null or undefined, processValue does not fail: it
\* returns twice the number the value converts to (true 2, false 0, null 0,
\* undefined NaN); it never fails with TypeMismatch, and a bigint fails with
\* the runtime's TypeError.
C9_SilentCoercion ==
    pc = "done" =>
        /\ args = BooleanValue(TRUE) => ret = Return(2)
        /\ args = BooleanValue(FALSE) => ret = Return(0)
        /\ args = NullValue => ret = Return(0)
        /\ args = UndefinedValue => ret = ReturnNaN
        /\ args.kind = "bigint" => ret = Throw("TypeError")
        /\ ret # Throw("TypeMismatch")

C9_Witness == pc = "done" /\ args = BooleanValue(TRUE) /\ ret = Return(2)

\* C10: an instance's state is what its constructor was given and never
\* changes: after any calls, getInfo() returns "Make: {make}, Year: {year}"
\* and a Car's getModel() returns "Model: {model}" for the constructor's
\* arguments; a Car's getInfo() is Vehicle's and does not show the model.
Corolla == [make |-> "Toyota", year |-> 2020, model |-> "Corolla"]

C10_Describes ==
    /\ pc = "getInfo" =>
        LET given == made[args[1]] IN
        /\ ret = Return("Make: " \o given.make \o ", Year: " \o ToString(given.year))
        /\ given = Corolla => ret = Return("Make: Toyota, Year: 2020")
    /\ pc = "getModel" =>
        LET given == made[args[1]] IN
        /\ ret = Return("Model: " \o given.model)
        /\ given = Corolla => ret = Return("Model: Corolla")

C10_FieldsKept == \A o \in DOMAIN heap : heap'[o] = heap[o]

C10_Immutable == []C10_Describes /\ [][C10_FieldsKept]_vars

C10_Witness ==
    /\ Len(heap) = 2
    /\ made[1] = Corolla
    /\ heap[2].class = "Vehicle"
    /\ pc = "getInfo" /\ args = <<1>>
    /\ ret = Return("Make: Toyota, Year: 2020")

====
